---- MODULE Spec2Model ----
(***************************************************************************)
(* A model of src/Project.h of RTags: the query-scoped file-map cache      *)
(* (Project::FileMapScope), the visited-file table shared with the indexer *)
(* workers (Project::visitFile / Project::releaseFileIds), the dependency  *)
(* graph (DependencyNode) and the watch table (Project::WatchMode).        *)
(***************************************************************************)
EXTENDS Integers, Sequences, FiniteSets, TLC

(***************************************************************************)
(* Bounds of the model.                                                    *)
(***************************************************************************)
\* file ids handed to open<Kind>() are 1..MaxFileId
MaxFileId == 2
\* FileMapScope::max is drawn from 1..MaxCache
MaxCache == 2
\* successful loads per scope (caps the counter totalOpened)
MaxTotalOpened == 3

\* file ids of the dependency graph are 1..MaxDepFileId
MaxDepFileId == 2
\* include edges the graph holds at a time
MaxEdges == 3

\* IndexerJob objects made by index(), and the source keys they carry
MaxJobs == 2
MaxSourceKey == 1
MaxVisitFileId == 1

\* file ids of the files that get dirty are 1..MaxDirtyFileId
MaxDirtyFileId == 3
\* the file ids of the calls of visitFile and releaseFileIds from outside the jobs
MaxReleaseFileId == 2

FileIds == 1..MaxFileId
DepFileIds == 1..MaxDepFileId
\* the file ids the indexer jobs visit are 1..MaxVisitFileId
VisitFileIds == 1..MaxVisitFileId
ReleaseFileIds == 1..MaxReleaseFileId
DirtyFileIds == 1..MaxDirtyFileId

(***************************************************************************)
(* enum Project::FileMapType and Project::fileMapName                      *)
(***************************************************************************)
Symbols == 0
SymbolNames == 1
Targets == 2
Usrs == 3

FileMapTypes == {Symbols, SymbolNames, Targets, Usrs}

fileMapName(type) ==
    CASE type = Symbols -> "symbols"
      [] type = SymbolNames -> "symnames"
      [] type = Targets -> "targets"
      [] type = Usrs -> "usrs"
      [] OTHER -> ""

(***************************************************************************)
(* Project::sourceFilePath: String::format<1024>("%s%d/%s", base, fileId,  *)
(* type).  fileId is a uint32_t printed with %d, i.e. read as a 32-bit     *)
(* signed int.                                                             *)
(***************************************************************************)
mSourceFilePathBase == "/base/"

DigitChar(d) ==
    CASE d = 0 -> "0" [] d = 1 -> "1" [] d = 2 -> "2" [] d = 3 -> "3"
      [] d = 4 -> "4" [] d = 5 -> "5" [] d = 6 -> "6" [] d = 7 -> "7"
      [] d = 8 -> "8" [] OTHER -> "9"

RECURSIVE DecimalNat(_)
DecimalNat(n) ==
    IF n < 10 THEN DigitChar(n)
    ELSE DecimalNat(n \div 10) \o DigitChar(n % 10)

\* the five decimal digits of r < 100000
Digits5(r) ==
    DigitChar(r \div 10000) \o DigitChar((r \div 1000) % 10)
        \o DigitChar((r \div 100) % 10) \o DigitChar((r \div 10) % 10)
        \o DigitChar(r % 10)

\* the decimal digits of hi * 65536 + lo, a value of up to 32 bits given by
\* its 16-bit halves: (hi * 655) * 100 + (hi * 36 + lo), in units of 100000
DecimalHalves(hi, lo) ==
    LET a == hi * 655
        low == (a % 1000) * 100 + hi * 36 + lo
        q == a \div 1000 + low \div 100000
        r == low % 100000
    IN  IF q = 0 THEN DecimalNat(r) ELSE DecimalNat(q) \o Digits5(r)

\* printf's %d applied to the 32-bit argument hi * 65536 + lo: the bits are
\* read as a signed int, a set top bit gives minus the two's complement
FormatD32(hi, lo) ==
    IF hi >= 32768
    THEN "-" \o DecimalHalves(65535 - hi, 65536 - lo)
    ELSE DecimalHalves(hi, lo)

\* printf's %d applied to a 32-bit argument
FormatD(u) == FormatD32(u \div 65536, u % 65536)

\* sourceFilePath for the file id hi * 65536 + lo
sourceFilePath32(hi, lo, type) ==
    mSourceFilePathBase \o FormatD32(hi, lo) \o "/" \o type

sourceFilePath(fileId, type) ==
    sourceFilePath32(fileId \div 65536, fileId % 65536, type)

(***************************************************************************)
(* State                                                                   *)
(***************************************************************************)
VARIABLES
    \* struct FileMapScope
    symbolNames, symbols, targets, usrs,   \* Hash<uint32_t, shared_ptr<FileMap>>
    openedFiles, totalOpened, max,
    entryList,                             \* EmbeddedLinkedList<shared_ptr<LRUEntry>>
    entryMap,                              \* Map<LRUKey, shared_ptr<LRUEntry>>
    \* observation of the last open<Kind>() call and of the assertions
    lastOpen, failedAsserts,
    \* history: the cached keys in order of their most recent open, and the
    \* number of loads that succeeded
    useOrder, loadCount,
    \* Project::mDependencies, and the DependencyNode objects by address
    mDependencies, heap,
    \* failed assertions of DependencyNode::include, and the last graph
    \* operation
    depAsserts, lastDep,
    \* Project::mVisitedFiles, Project::mActiveJobs, the IndexerJob objects,
    \* Project::mFixIts and Project::mDiagnostics
    mVisitedFiles, mActiveJobs, jobs, mFixIts, mDiagnostics,
    \* failed assertions of visitFile, and the last visitFile call
    visitAsserts, lastVisit,
    \* history: how often visitFile returned true for a file id since the
    \* last releaseFileIds that held it
    granted,
    \* Project::mWatchedPaths, the directories registered with mWatcher
    mWatchedPaths, watcherPaths,
    \* history: the modes watched and not unwatched since, by directory, and
    \* the last call
    watchedModes, lastWatch,
    \* Project::mPendingDirtyFiles, whether Project::mDirtyTimer is armed,
    \* Project::mSuspendedFiles
    mPendingDirtyFiles, mDirtyTimer, mSuspendedFiles,
    \* history: the last fire of the dirty timer
    lastDirty,
    \* history of the calls made from outside the jobs: the file ids released
    \* and not visited since, and the last call with the set it released
    released, lastCall,
    \* history: the file ids that the worker of a job has claimed with the
    \* source key of the job, and the job whose worker holds a file id: it
    \* made the last call that returned true for it, with no release since
    claimed, holder,
    \* a call of sourceFilePath: the file id by its 16-bit halves, the kind
    \* and the path returned
    pathCall

scopeVars == <<symbolNames, symbols, targets, usrs, openedFiles, totalOpened,
               max, entryList, entryMap, lastOpen, failedAsserts, useOrder,
               loadCount>>

depVars == <<mDependencies, heap, depAsserts, lastDep>>

jobVars == <<mVisitedFiles, mActiveJobs, jobs, mFixIts, mDiagnostics,
             visitAsserts, lastVisit, granted>>

watchVars == <<mWatchedPaths, watcherPaths, watchedModes, lastWatch>>

dirtyVars == <<mPendingDirtyFiles, mDirtyTimer, mSuspendedFiles, lastDirty>>

callVars == <<released, lastCall, claimed, holder, pathCall>>

vars == <<scopeVars, depVars, jobVars, watchVars, dirtyVars, callVars>>

\* no scope is open: mFileMapScope is null, and max has no value
NoScope == 0

\* the null shared_ptr
NullMap == [path |-> ""]
\* a FileMap loaded from `path`
LoadedMap(path) == [path |-> path]

NoKey == [type |-> 0 - 1, fileId |-> 0]

(***************************************************************************)
(* FileMapScope::LRUKey, LRUEntry                                          *)
(***************************************************************************)
LRUKey(t, f) == [type |-> t, fileId |-> f]

\* LRUKey::operator<
LRUKeyLess(a, b) ==
    a.fileId < b.fileId \/ (a.fileId = b.fileId /\ a.type < b.type)

LRUEntry(t, f) == [key |-> LRUKey(t, f)]

\* Map<LRUKey, ...>: keys are equivalent when neither is less than the other
KeyEquiv(a, b) == ~LRUKeyLess(a, b) /\ ~LRUKeyLess(b, a)

\* Map::contains / Map::value / Map::operator[]= / Map::remove on a set of entries
EntryMapContains(m, key) == \E e \in m : KeyEquiv(e.key, key)
EntryMapValue(m, key) == CHOOSE e \in m : KeyEquiv(e.key, key)
EntryMapSet(m, entry) == {e \in m : ~KeyEquiv(e.key, entry.key)} \cup {entry}
EntryMapRemove(m, key) == {e \in m : ~KeyEquiv(e.key, key)}

\* EmbeddedLinkedList::remove
ListRemove(list, e) == SelectSeq(list, LAMBDA x : x # e)

\* Hash::remove
HashRemove(h, k) == [x \in DOMAIN h \ {k} |-> h[x]]
\* Hash::operator[]=
HashSet(h, k, v) == [x \in DOMAIN h \cup {k} |-> IF x = k THEN v ELSE h[x]]

EmptyHash == [x \in {} |-> NullMap]

(***************************************************************************)
(* The four kind maps, addressed by the member the open<Kind>() wrappers   *)
(* pass as `cache`.                                                        *)
(***************************************************************************)
Caches == [symbolNames |-> symbolNames, symbols |-> symbols,
           targets |-> targets, usrs |-> usrs]

\* evictedCache with two case labels of the switch exchanged
evictedCache_swapped(type) ==
    CASE type = SymbolNames -> "symbolNames"
      [] type = Symbols -> "symbols"
      [] type = Targets -> "usrs"
      [] type = Usrs -> "targets"

\* the switch on e->key.type of the eviction branch: the member it erases from
evictedCache(type) ==
    CASE type = SymbolNames -> "symbolNames"
      [] type = Symbols -> "symbols"
      [] type = Targets -> "targets"
      [] type = Usrs -> "usrs"

\* overflows with the comparison off by one
overflows_late(opened, m) == opened > m + 1

\* if (++openedFiles > max)
overflows(opened, m) == opened > m

\* afterEvict decrementing the wrong counter
afterEvict_total(opened, total) == [openedFiles |-> opened, totalOpened |-> total - 1]

\* --openedFiles of the eviction branch: the two counters after it
afterEvict(opened, total) == [openedFiles |-> opened - 1, totalOpened |-> total]

\* listAppend inserting at the head
listAppend_front(list, e) == <<e>> \o list

\* EmbeddedLinkedList::append, as called by poke and openFileMap
listAppend(list, e) == Append(list, e)

\* takeFirst taking the element at the tail
takeFirst_last(list) ==
    [e |-> list[Len(list)], rest |-> SubSeq(list, 1, Len(list) - 1)]

\* EmbeddedLinkedList::takeFirst: the element taken, and the list left
takeFirst(list) == [e |-> Head(list), rest |-> Tail(list)]

\* poke leaving the entry where it is
poke_still(list, emap, t, f) == list

\* FileMapScope::poke: the list after the call.  A null ptr fails the
\* assertion; the list is then left as it is.
poke(list, emap, t, f) ==
    LET key == LRUKey(t, f)
    IN  IF EntryMapContains(emap, key)
        THEN LET ptr == EntryMapValue(emap, key)
             IN  listAppend(ListRemove(list, ptr), ptr)
        ELSE list

\* assert(ptr) of poke
pokeAssert(emap, t, f) == EntryMapContains(emap, LRUKey(t, f))

\* the keys held by the four kind maps m (a record like Caches), each map
\* taken as the map of the kind its open<Kind>() wrapper serves
KindMapOf(type) ==
    CASE type = SymbolNames -> "symbolNames"
      [] type = Symbols -> "symbols"
      [] type = Targets -> "targets"
      [] type = Usrs -> "usrs"

KindMapKeys(m) ==
    {k \in {LRUKey(t, f) : t \in FileMapTypes, f \in FileIds} :
        k.fileId \in DOMAIN m[KindMapOf(k.type)]}

\* history: move key to the most-recent end, keep only the keys still cached
Touch(order, key, m) ==
    SelectSeq(Append(SelectSeq(order, LAMBDA k : k # key), key),
              LAMBDA k : k \in KindMapKeys(m))

SetCaches(m) ==
    /\ symbolNames' = m.symbolNames
    /\ symbols' = m.symbols
    /\ targets' = m.targets
    /\ usrs' = m.usrs

(***************************************************************************)
(* FileMapScope::openFileMap, its three paths.                             *)
(***************************************************************************)
\* cache.find(fileId) != cache.end(): poke and return it->second
openCached(type, fileId, cache) ==
    /\ entryList' = poke(entryList, entryMap, type, fileId)
    /\ failedAsserts' = failedAsserts \cup
                            (IF pokeAssert(entryMap, type, fileId)
                             THEN {} ELSE {"poke"})
    /\ lastOpen' = [type |-> type, fileId |-> fileId, outcome |-> "cached",
                    result |-> Caches[cache][fileId], loadPath |-> "",
                    loadFailed |-> <<>>, evicted |-> NoKey]
    /\ useOrder' = Touch(useOrder, LRUKey(type, fileId), Caches)
    /\ UNCHANGED <<symbolNames, symbols, targets, usrs, openedFiles,
                   totalOpened, max, entryMap, loadCount>>

\* fileMap->load() returned true
openLoaded(type, fileId, cache) ==
    LET path == sourceFilePath(fileId, fileMapName(type))
        fileMap == LoadedMap(path)
        m1 == [Caches EXCEPT ![cache] = HashSet(@, fileId, fileMap)]
        entry == LRUEntry(type, fileId)
        list1 == listAppend(entryList, entry)
        emap1 == EntryMapSet(entryMap, entry)
        opened1 == openedFiles + 1
        evict == overflows(opened1, max)
        taken == takeFirst(list1)
        e == taken.e
        m2 == IF evict
              THEN [m1 EXCEPT ![evictedCache(e.key.type)] =
                                  HashRemove(@, e.key.fileId)]
              ELSE m1
        counted == IF evict THEN afterEvict(opened1, totalOpened + 1)
                   ELSE [openedFiles |-> opened1, totalOpened |-> totalOpened + 1]
        failed ==
            (IF evict /\ e.key.fileId \notin DOMAIN m1[evictedCache(e.key.type)]
             THEN {"evicted"} ELSE {})
            \cup (IF counted.openedFiles <= max THEN {} ELSE {"max"})
    IN  /\ totalOpened' = counted.totalOpened
        /\ SetCaches(m2)
        /\ entryList' = IF evict THEN taken.rest ELSE list1
        /\ entryMap' = IF evict THEN EntryMapRemove(emap1, e.key) ELSE emap1
        /\ openedFiles' = counted.openedFiles
        /\ failedAsserts' = failedAsserts \cup failed
        /\ loadCount' = loadCount + 1
        /\ lastOpen' = [type |-> type, fileId |-> fileId, outcome |-> "loaded",
                        result |-> fileMap, loadPath |-> path,
                        loadFailed |-> <<>>,
                        evicted |-> IF evict THEN e.key ELSE NoKey]
        /\ useOrder' = Touch(useOrder, LRUKey(type, fileId), m2)
        /\ UNCHANGED max

\* openFailed with the map stored in the cache before the load is checked
openFailed_cached(type, fileId, cache) ==
    LET path == sourceFilePath(fileId, fileMapName(type))
    IN  /\ SetCaches([Caches EXCEPT ![cache] = HashSet(@, fileId, NullMap)])
        /\ lastOpen' = [type |-> type, fileId |-> fileId, outcome |-> "failed",
                        result |-> NullMap, loadPath |-> path,
                        loadFailed |-> <<fileId>>, evicted |-> NoKey]
        /\ UNCHANGED <<openedFiles, totalOpened, max, entryList, entryMap,
                       failedAsserts, useOrder, loadCount>>

\* fileMap->load() returned false: loadFailed(fileId), fileMap.reset()
openFailed(type, fileId, cache) ==
    LET path == sourceFilePath(fileId, fileMapName(type))
    IN  /\ lastOpen' = [type |-> type, fileId |-> fileId, outcome |-> "failed",
                        result |-> NullMap, loadPath |-> path,
                        loadFailed |-> <<fileId>>, evicted |-> NoKey]
        /\ UNCHANGED <<symbolNames, symbols, targets, usrs, openedFiles,
                       totalOpened, max, entryList, entryMap,
                       failedAsserts, useOrder, loadCount>>

\* loads is the outcome of FileMap::load for this call
openFileMap(type, fileId, cache, loads) ==
    IF fileId \in DOMAIN Caches[cache]
    THEN openCached(type, fileId, cache)
    ELSE IF loads
         THEN totalOpened < MaxTotalOpened /\ openLoaded(type, fileId, cache)
         ELSE openFailed(type, fileId, cache)

(***************************************************************************)
(* Project::openSymbolNames, openSymbols, openTargets, openUsrs            *)
(***************************************************************************)
openSymbolNames ==
    /\ max # NoScope
    /\ \E fileId \in FileIds, loads \in BOOLEAN :
          openFileMap(SymbolNames, fileId, "symbolNames", loads)
    /\ UNCHANGED <<depVars, jobVars, watchVars, dirtyVars, callVars>>

openSymbols ==
    /\ max # NoScope
    /\ \E fileId \in FileIds, loads \in BOOLEAN :
          openFileMap(Symbols, fileId, "symbols", loads)
    /\ UNCHANGED <<depVars, jobVars, watchVars, dirtyVars, callVars>>

openTargets ==
    /\ max # NoScope
    /\ \E fileId \in FileIds, loads \in BOOLEAN :
          openFileMap(Targets, fileId, "targets", loads)
    /\ UNCHANGED <<depVars, jobVars, watchVars, dirtyVars, callVars>>

openUsrs ==
    /\ max # NoScope
    /\ \E fileId \in FileIds, loads \in BOOLEAN :
          openFileMap(Usrs, fileId, "usrs", loads)
    /\ UNCHANGED <<depVars, jobVars, watchVars, dirtyVars, callVars>>

NoOpen == [type |-> 0 - 1, fileId |-> 0, outcome |-> "none", result |-> NullMap,
           loadPath |-> "", loadFailed |-> <<>>, evicted |-> NoKey]

\* no scope yet: mFileMapScope is null
ScopeInit ==
    /\ symbolNames = EmptyHash /\ symbols = EmptyHash
    /\ targets = EmptyHash /\ usrs = EmptyHash
    /\ openedFiles = 0 /\ totalOpened = 0
    /\ max = NoScope
    /\ entryList = <<>> /\ entryMap = {}
    /\ lastOpen = NoOpen /\ failedAsserts = {}
    /\ useOrder = <<>> /\ loadCount = 0

\* FileMapScope::FileMapScope(proj, m): the members of a new scope
FileMapScope(m) ==
    /\ symbolNames' = EmptyHash /\ symbols' = EmptyHash
    /\ targets' = EmptyHash /\ usrs' = EmptyHash
    /\ openedFiles' = 0 /\ totalOpened' = 0
    /\ max' = m
    /\ entryList' = <<>> /\ entryMap' = {}
    /\ lastOpen' = NoOpen /\ failedAsserts' = {}
    /\ useOrder' = <<>> /\ loadCount' = 0

\* Project::beginScope: mFileMapScope is set to a new FileMapScope
beginScope ==
    /\ max = NoScope
    /\ \E m \in 1..MaxCache : FileMapScope(m)
    /\ UNCHANGED <<depVars, jobVars, watchVars, dirtyVars, callVars>>

\* Project::endScope: mFileMapScope is reset
endScope ==
    /\ max # NoScope
    /\ FileMapScope(NoScope)
    /\ UNCHANGED <<depVars, jobVars, watchVars, dirtyVars, callVars>>

ScopeNext ==
    \/ beginScope \/ endScope
    \/ openSymbolNames \/ openSymbols \/ openTargets \/ openUsrs

(***************************************************************************)
(* struct DependencyNode and Project::mDependencies.  A node lives at an   *)
(* address of the heap; includes and dependents map a file id to the       *)
(* address of a node.                                                      *)
(***************************************************************************)
Addresses == DepFileIds \cup DirtyFileIds

EmptyDeps == [x \in {} |-> 0]

\* DependencyNode::DependencyNode(f)
DependencyNode(f) == [fileId |-> f, includes |-> EmptyDeps, dependents |-> EmptyDeps]

\* Hash<uint32_t, DependencyNode*>::operator[]= and remove
DepsSet(d, k, v) == [x \in DOMAIN d \cup {k} |-> IF x = k THEN v ELSE d[x]]
DepsRemove(d, k) == [x \in DOMAIN d \ {k} |-> d[x]]

\* include recording the link in the includer only
include_oneway(h, this, dependee) ==
    [h EXCEPT ![this].includes = DepsSet(@, h[dependee].fileId, dependee)]

\* include entering the includer in its own dependents
include_misplaced(h, this, dependee) ==
    LET h1 == [h EXCEPT ![this].includes =
                            DepsSet(@, h[dependee].fileId, dependee)]
    IN  [h1 EXCEPT ![this].dependents = DepsSet(@, h1[this].fileId, this)]

\* DependencyNode::include: the heap after this->include(dependee)
include(h, this, dependee) ==
    LET h1 == [h EXCEPT ![this].includes =
                            DepsSet(@, h[dependee].fileId, dependee)]
    IN  [h1 EXCEPT ![dependee].dependents = DepsSet(@, h1[this].fileId, this)]

\* the two assertions of DependencyNode::include
includeAsserts(h, this, dependee) ==
    (IF h[dependee].fileId \in DOMAIN h[this].includes
        /\ h[this].includes[h[dependee].fileId] # dependee
     THEN {"includes"} ELSE {})
    \cup
    (IF h[this].fileId \in DOMAIN h[dependee].dependents
        /\ h[dependee].dependents[h[this].fileId] # this
     THEN {"dependents"} ELSE {})

\* new DependencyNode: the lowest free address
NewAddress(h) == CHOOSE a \in Addresses \ DOMAIN h :
                    \A b \in Addresses \ DOMAIN h : a <= b

\* the node of file id f, made and entered in the table when there is none:
\* the table and the heap afterwards
insertOrGet(d, h, f) ==
    IF f \in DOMAIN d
    THEN [deps |-> d, heap |-> h]
    ELSE LET a == NewAddress(h)
         IN  [deps |-> DepsSet(d, f, a),
              heap |-> [x \in DOMAIN h \cup {a} |->
                           IF x = a THEN DependencyNode(f) ELSE h[x]]]

\* the include links of the graph, as (address of the includer, file id)
Edges(h) == {e \in (DOMAIN h) \X DepFileIds : e[2] \in DOMAIN h[e[1]].includes}

\* link(includer, includee): both nodes exist, then includer->include(includee)
link(includer, includee) ==
    LET s1 == insertOrGet(mDependencies, heap, includer)
        s2 == insertOrGet(s1.deps, s1.heap, includee)
        a == s2.deps[includer]
        b == s2.deps[includee]
    IN  /\ \/ includee \in DOMAIN s2.heap[a].includes
           \/ Cardinality(Edges(heap)) < MaxEdges
        /\ mDependencies' = s2.deps
        /\ heap' = include(s2.heap, a, b)
        /\ depAsserts' = depAsserts \cup includeAsserts(s2.heap, a, b)
        /\ lastDep' = [op |-> "link", fileId |-> includer]

\* Project::removeDependencies(fileId): the heap with the node unlinked from
\* every peer and deleted
unlinked(h, node, fileId) ==
    [x \in DOMAIN h \ {node} |->
        [h[x] EXCEPT
            !.dependents = IF x \in {h[node].includes[k] : k \in DOMAIN h[node].includes}
                           THEN DepsRemove(@, fileId) ELSE @,
            !.includes = IF x \in {h[node].dependents[k] : k \in DOMAIN h[node].dependents}
                         THEN DepsRemove(@, fileId) ELSE @]]

removeDependencies(fileId) ==
    /\ fileId \in DOMAIN mDependencies
    /\ heap' = unlinked(heap, mDependencies[fileId], fileId)
    /\ mDependencies' = DepsRemove(mDependencies, fileId)
    /\ lastDep' = [op |-> "remove", fileId |-> fileId]
    /\ UNCHANGED depAsserts

\* the node of a file id is asked for (dependencyNode, insertOrGet)
insertNode(fileId) ==
    LET s1 == insertOrGet(mDependencies, heap, fileId)
    IN  /\ fileId \notin DOMAIN mDependencies
        /\ mDependencies' = s1.deps
        /\ heap' = s1.heap
        /\ lastDep' = [op |-> "insert", fileId |-> fileId]
        /\ UNCHANGED depAsserts

\* the nodes of the file ids of set S made, and node `this` made to include
\* each of them: the table and the heap afterwards
RECURSIVE includeAll(_, _, _, _)
includeAll(d, h, this, S) ==
    IF S = {}
    THEN [deps |-> d, heap |-> h, failed |-> {}]
    ELSE LET f == CHOOSE x \in S : \A y \in S : x <= y
             s1 == insertOrGet(d, h, f)
             rest == includeAll(s1.deps, include(s1.heap, this, s1.deps[f]),
                                this, S \ {f})
         IN  [rest EXCEPT !.failed = @ \cup includeAsserts(s1.heap, this, s1.deps[f])]

\* the includes of node `this` that are not in the reported set dropped,
\* with their reverse links
dropIncludes(h, this, keep) ==
    [x \in DOMAIN h |->
        [h[x] EXCEPT
            !.dependents =
                IF h[this].fileId \in DOMAIN @
                   /\ \E k \in DOMAIN h[this].includes \ keep : h[this].includes[k] = x
                THEN DepsRemove(@, h[this].fileId) ELSE @,
            !.includes =
                IF x = this
                THEN [k \in DOMAIN @ \cap keep |-> h[this].includes[k]]
                ELSE @]]

\* Project::updateDependencies for one (includer -> includees) of a result:
\* the includer's includes become exactly the reported set
updateDependencies(includer, includees) ==
    LET s1 == insertOrGet(mDependencies, heap, includer)
        this == s1.deps[includer]
        h2 == dropIncludes(s1.heap, this, includees)
        s3 == includeAll(s1.deps, h2, this, includees)
    IN  /\ mDependencies' = s3.deps
        /\ heap' = s3.heap
        /\ depAsserts' = depAsserts \cup s3.failed
        /\ lastDep' = [op |-> "update", fileId |-> includer]

DepInit ==
    /\ mDependencies = EmptyDeps
    /\ heap = [x \in {} |-> DependencyNode(0)]
    /\ depAsserts = {}
    /\ lastDep = [op |-> "none", fileId |-> 0]

DepLink ==
    /\ \E includer \in DepFileIds, includee \in DepFileIds :
          link(includer, includee)
    /\ UNCHANGED <<scopeVars, jobVars, watchVars, dirtyVars, callVars>>

DepRemove ==
    /\ \E fileId \in DepFileIds : removeDependencies(fileId)
    /\ UNCHANGED <<scopeVars, jobVars, watchVars, dirtyVars, callVars>>

DepInsert ==
    /\ \E fileId \in DepFileIds : insertNode(fileId)
    /\ UNCHANGED <<scopeVars, jobVars, watchVars, dirtyVars, callVars>>

DepUpdate ==
    /\ \E includer \in DepFileIds, includees \in SUBSET DepFileIds :
          /\ updateDependencies(includer, includees)
          /\ Cardinality(Edges(heap')) <= MaxEdges
    /\ UNCHANGED <<scopeVars, jobVars, watchVars, dirtyVars, callVars>>

DepNext == DepLink \/ DepRemove \/ DepInsert \/ DepUpdate

(***************************************************************************)
(* Project::visitFile and Project::releaseFileIds                          *)
(***************************************************************************)
JobIds == 1..MaxJobs
SourceKeys == 1..MaxSourceKey
\* the paths a caller passes to visitFile; Path() is the empty path
Paths == {"", "/a"}

EmptyVisited == [x \in {} |-> ""]
EmptyJobs == [x \in {} |-> 0]

\* Path &p = mVisitedFiles[visitFileId]: the path found, or the empty path
\* operator[] enters
visitedPath(fileId) ==
    IF fileId \in DOMAIN mVisitedFiles THEN mVisitedFiles[fileId] ELSE ""

\* releaseFileIds clearing the table where it removes the file ids
releaseFileIds_clear(visitedFiles, fileIds) ==
    IF fileIds # {}
    THEN [f \in {} |-> ""]
    ELSE visitedFiles

\* releaseFileIds testing isEmpty() the wrong way round
releaseFileIds_inverted(visitedFiles, fileIds) ==
    IF fileIds = {}
    THEN [f \in DOMAIN visitedFiles \ fileIds |-> visitedFiles[f]]
    ELSE visitedFiles

\* Project::releaseFileIds: mVisitedFiles after the call
releaseFileIds(visitedFiles, fileIds) ==
    IF fileIds # {}
    THEN [f \in DOMAIN visitedFiles \ fileIds |-> visitedFiles[f]]
    ELSE visitedFiles

\* history: the file ids of a releaseFileIds call may be granted again
Released(fileIds) == [f \in DOMAIN granted |-> IF f \in fileIds THEN 0 ELSE granted[f]]

\* Project::visitFile, run with the mutex held from start to end: the table,
\* the jobs, the value returned and the assertions that failed.  A failed
\* assertion ends the process before anything is returned.
visitFile(visitFileId, path, key) ==
    IF visitedPath(visitFileId) = ""
    THEN LET table == [f \in DOMAIN mVisitedFiles \cup {visitFileId} |->
                          IF f = visitFileId THEN path ELSE mVisitedFiles[f]]
         IN  IF key # 0 /\ key \notin DOMAIN mActiveJobs
             THEN [visitedFiles |-> table, jobs |-> jobs, result |-> "assert",
                   failed |-> {"contains"}]
             ELSE [visitedFiles |-> table,
                   jobs |-> IF key # 0
                            THEN [jobs EXCEPT ![mActiveJobs[key]].visited =
                                                  @ \cup {visitFileId}]
                            ELSE jobs,
                   result |-> "true", failed |-> {}]
    ELSE [visitedFiles |-> mVisitedFiles, jobs |-> jobs, result |-> "false",
          failed |-> {}]

(***************************************************************************)
(* Project::index, Project::onJobFinished and the indexer workers          *)
(***************************************************************************)
\* an IndexerJob that index() has not been given yet
NoJob == [key |-> 0, state |-> "none", cancelled |-> FALSE, visited |-> {}]

\* the last reference to a job is dropped: the object and its visited set go
Ended(job, state) == [job EXCEPT !.state = state, !.visited = {}]

\* the file id of the translation unit of a source key
SourceFileId(key) == ((key - 1) % MaxVisitFileId) + 1

\* index(job): the job takes the place of the active job of its source key,
\* which is cancelled, and its backend is started
index(job, key) ==
    /\ jobs[job].state = "none"
    /\ \A j \in JobIds : j < job => jobs[j].state # "none"
    /\ jobs' = [j \in JobIds |->
                  IF j = job
                  THEN [key |-> key, state |-> "running", cancelled |-> FALSE,
                        visited |-> {}]
                  ELSE IF key \in DOMAIN mActiveJobs /\ mActiveJobs[key] = j
                       THEN [jobs[j] EXCEPT !.cancelled = TRUE]
                       ELSE jobs[j]]
    /\ mActiveJobs' = [k \in DOMAIN mActiveJobs \cup {key} |->
                          IF k = key THEN job ELSE mActiveJobs[k]]
    /\ UNCHANGED <<mVisitedFiles, mFixIts, mDiagnostics, visitAsserts,
                   lastVisit, granted, depVars>>

\* the worker of a running job claims a file
workerVisitFile(job) ==
    /\ jobs[job].state = "running"
    /\ \E visitFileId \in VisitFileIds, path \in Paths, key \in {0, jobs[job].key} :
          LET call == visitFile(visitFileId, path, key)
          IN  /\ mVisitedFiles' = call.visitedFiles
              /\ jobs' = call.jobs
              /\ visitAsserts' = visitAsserts \cup call.failed
              /\ granted' = IF call.result = "true"
                            THEN [granted EXCEPT ![visitFileId] =
                                                    IF @ < 2 THEN @ + 1 ELSE @]
                            ELSE granted
              /\ lastVisit' = [fileId |-> visitFileId, result |-> call.result]
    /\ UNCHANGED <<mActiveJobs, mFixIts, mDiagnostics, depVars>>

\* the worker of a running job ends and posts its result to the main loop
workerComplete(job) ==
    /\ jobs[job].state = "running"
    /\ jobs' = [jobs EXCEPT ![job].state = "complete"]
    /\ UNCHANGED <<mVisitedFiles, mActiveJobs, mFixIts, mDiagnostics,
                   visitAsserts, lastVisit, granted, depVars>>

\* the worker of a cancelled job aborts and gives its file ids back
workerAbort(job) ==
    /\ jobs[job].state = "running" /\ jobs[job].cancelled
    /\ mVisitedFiles' = releaseFileIds(mVisitedFiles, jobs[job].visited)
    /\ granted' = Released(jobs[job].visited)
    /\ jobs' = [jobs EXCEPT ![job] = Ended(@, "aborted")]
    /\ UNCHANGED <<mActiveJobs, mFixIts, mDiagnostics, visitAsserts,
                   lastVisit, depVars>>

\* the fix-its and the diagnostics, each a set of the results merged into it
mergedInto(table, job) == table \cup {job}

\* onJobFinished(job, msg) on the main loop
onJobFinished(job) ==
    LET key == jobs[job].key
    IN  /\ jobs[job].state = "complete"
        /\ IF key \notin DOMAIN mActiveJobs \/ mActiveJobs[key] # job
           THEN \* superseded: the result is dropped, the file ids released
                /\ mVisitedFiles' = releaseFileIds(mVisitedFiles, jobs[job].visited)
                /\ granted' = Released(jobs[job].visited)
                /\ jobs' = [jobs EXCEPT ![job] = Ended(@, "discarded")]
                /\ UNCHANGED <<mActiveJobs, mFixIts, mDiagnostics, depVars>>
           ELSE /\ updateDependencies(SourceFileId(key),
                                      jobs[job].visited \ {SourceFileId(key)})
                /\ mFixIts' = mergedInto(mFixIts, job)
                /\ mDiagnostics' = mergedInto(mDiagnostics, job)
                /\ mActiveJobs' = [k \in DOMAIN mActiveJobs \ {key} |-> mActiveJobs[k]]
                /\ jobs' = [jobs EXCEPT ![job] = Ended(@, "merged")]
                /\ UNCHANGED <<mVisitedFiles, granted>>
        /\ UNCHANGED <<visitAsserts, lastVisit>>

JobInit ==
    /\ mVisitedFiles = EmptyVisited
    /\ mActiveJobs = EmptyJobs
    /\ jobs = [j \in JobIds |-> NoJob]
    /\ mFixIts = {} /\ mDiagnostics = {}
    /\ visitAsserts = {}
    /\ lastVisit = [fileId |-> 0, result |-> "none"]
    /\ granted = [f \in VisitFileIds |-> 0]

Running == visitAsserts = {}

JobIndex ==
    /\ Running
    /\ \E job \in JobIds, key \in SourceKeys : index(job, key)
    /\ UNCHANGED <<scopeVars, watchVars, dirtyVars, callVars>>

JobVisitFile ==
    /\ Running
    /\ \E job \in JobIds : workerVisitFile(job)
    /\ UNCHANGED <<scopeVars, watchVars, dirtyVars, callVars>>

JobComplete ==
    /\ Running
    /\ \E job \in JobIds : workerComplete(job)
    /\ UNCHANGED <<scopeVars, watchVars, dirtyVars, callVars>>

JobAbort ==
    /\ Running
    /\ \E job \in JobIds : workerAbort(job)
    /\ UNCHANGED <<scopeVars, watchVars, dirtyVars, callVars>>

JobFinished ==
    /\ Running
    /\ \E job \in JobIds : onJobFinished(job)
    /\ UNCHANGED <<scopeVars, watchVars, dirtyVars, callVars>>

JobNext == JobIndex \/ JobVisitFile \/ JobComplete \/ JobAbort \/ JobFinished

(***************************************************************************)
(* enum Project::WatchMode, Project::watch, unwatch and clearWatch         *)
(***************************************************************************)
Watch_FileManager == 1
Watch_SourceFile == 2

\* Watch_Dependency given the value of Watch_SourceFile
Watch_Dependency_dup == Watch_SourceFile

Watch_Dependency == 4
Watch_CompilationDatabase == 8

WatchModes == {"Watch_FileManager", "Watch_SourceFile", "Watch_Dependency",
               "Watch_CompilationDatabase"}

\* the value of an enumerator
WatchModeValue(mode) ==
    CASE mode = "Watch_FileManager" -> Watch_FileManager
      [] mode = "Watch_SourceFile" -> Watch_SourceFile
      [] mode = "Watch_Dependency" -> Watch_Dependency
      [] mode = "Watch_CompilationDatabase" -> Watch_CompilationDatabase

\* the directories watched
Dirs == {"/src", "/inc"}

\* Flags<WatchMode>: a | b and a & ~b on the bits
RECURSIVE BitOr(_, _)
BitOr(a, b) ==
    IF a = 0 THEN b
    ELSE IF b = 0 THEN a
    ELSE (IF a % 2 = 1 \/ b % 2 = 1 THEN 1 ELSE 0) + 2 * BitOr(a \div 2, b \div 2)

RECURSIVE BitAndNot(_, _)
BitAndNot(a, b) ==
    IF a = 0 THEN 0
    ELSE (IF a % 2 = 1 /\ b % 2 = 0 THEN 1 ELSE 0) + 2 * BitAndNot(a \div 2, b \div 2)

EmptyWatched == [x \in {} |-> 0]

\* mWatchedPaths with the entries whose bits are all cleared dropped
dropEmptied(w) == [d \in {x \in DOMAIN w : w[x] # 0} |-> w[d]]

\* watch(dir, mode): sets the bit and registers the directory
watch(dir, mode) ==
    /\ mWatchedPaths' =
          [d \in DOMAIN mWatchedPaths \cup {dir} |->
              IF d = dir
              THEN BitOr(IF dir \in DOMAIN mWatchedPaths THEN mWatchedPaths[dir] ELSE 0,
                         WatchModeValue(mode))
              ELSE mWatchedPaths[d]]
    /\ watcherPaths' = watcherPaths \cup {dir}
    /\ watchedModes' = [watchedModes EXCEPT ![dir] = @ \cup {mode}]
    /\ lastWatch' = [op |-> "watch", dir |-> dir, mode |-> mode]

\* unwatch(dir, mode): clears the bit; unregisters and removes the entry when
\* no bit is left
unwatch(dir, mode) ==
    /\ dir \in DOMAIN mWatchedPaths
    /\ LET bits == BitAndNot(mWatchedPaths[dir], WatchModeValue(mode))
       IN  /\ mWatchedPaths' = dropEmptied([mWatchedPaths EXCEPT ![dir] = bits])
           /\ watcherPaths' = IF bits = 0 THEN watcherPaths \ {dir} ELSE watcherPaths
    /\ watchedModes' = [watchedModes EXCEPT ![dir] = @ \ {mode}]
    /\ lastWatch' = [op |-> "unwatch", dir |-> dir, mode |-> mode]

\* unwatch(dir, mode) of a directory that is not watched
unwatchUnknown(dir, mode) ==
    /\ dir \notin DOMAIN mWatchedPaths
    /\ watchedModes' = [watchedModes EXCEPT ![dir] = @ \ {mode}]
    /\ lastWatch' = [op |-> "unwatch", dir |-> dir, mode |-> mode]
    /\ UNCHANGED <<mWatchedPaths, watcherPaths>>

RECURSIVE maskOf(_)
maskOf(modes) ==
    IF modes = {} THEN 0
    ELSE LET m == CHOOSE x \in modes : TRUE
         IN  BitOr(WatchModeValue(m), maskOf(modes \ {m}))

\* clearWatch(mode): clears the bits of the mask in every entry and
\* unregisters the directories left without a bit
clearWatch(modes) ==
    LET cleared == [d \in DOMAIN mWatchedPaths |->
                       BitAndNot(mWatchedPaths[d], maskOf(modes))]
    IN  /\ mWatchedPaths' = dropEmptied(cleared)
        /\ watcherPaths' = watcherPaths \ {d \in DOMAIN cleared : cleared[d] = 0}
        /\ watchedModes' = [d \in Dirs |-> watchedModes[d] \ modes]
        /\ lastWatch' = [op |-> "clearWatch", dir |-> "", mode |-> ""]

WatchInit ==
    /\ mWatchedPaths = EmptyWatched
    /\ watcherPaths = {}
    /\ watchedModes = [d \in Dirs |-> {}]
    /\ lastWatch = [op |-> "none", dir |-> "", mode |-> ""]

WatchWatch ==
    /\ \E dir \in Dirs, mode \in WatchModes : watch(dir, mode)
    /\ UNCHANGED <<scopeVars, depVars, jobVars, dirtyVars, callVars>>

WatchUnwatch ==
    /\ \E dir \in Dirs, mode \in WatchModes :
          unwatch(dir, mode) \/ unwatchUnknown(dir, mode)
    /\ UNCHANGED <<scopeVars, depVars, jobVars, dirtyVars, callVars>>

WatchClear ==
    /\ \E modes \in SUBSET WatchModes : modes # {} /\ clearWatch(modes)
    /\ UNCHANGED <<scopeVars, depVars, jobVars, dirtyVars, callVars>>

WatchNext == WatchWatch \/ WatchUnwatch \/ WatchClear

(***************************************************************************)
(* Project::dependencies, Project::dirty, Project::toggleSuspendFile and   *)
(* Project::onDirtyTimeout                                                 *)
(***************************************************************************)
\* enum Project::DependencyMode
DependsOnArg == 0
ArgDependsOn == 1

\* the nodes one link away from the node at address a: its dependents for
\* DependsOnArg, its includes for ArgDependsOn
peers(h, a, mode) ==
    LET m == IF mode = DependsOnArg THEN h[a].dependents ELSE h[a].includes
    IN  {m[k] : k \in DOMAIN m}

\* the nodes reached from the nodes of todo, seen being those reached so far
RECURSIVE walk(_, _, _, _)
walk(h, todo, seen, mode) ==
    IF todo = {}
    THEN seen
    ELSE LET a == CHOOSE x \in todo : \A y \in todo : x <= y
             reached == seen \cup {a}
         IN  walk(h, (todo \ {a}) \cup (peers(h, a, mode) \ reached), reached, mode)

\* Project::dependencies(fileId, mode): the transitive closure
dependencies(d, h, fileId, mode) ==
    IF fileId \notin DOMAIN d
    THEN {}
    ELSE {h[a].fileId : a \in walk(h, peers(h, d[fileId], mode), {}, mode)}

\* Project::hasSource(fileId): a source of mSources is the file
hasSource(fileId) == \E key \in SourceKeys : SourceFileId(key) = fileId

\* Project::isSuspended(file)
isSuspended(file) == file \in mSuspendedFiles

\* the IndexerJob objects that index() has not been given
FreeJobs(js) == {j \in JobIds : js[j].state = "none"}

\* startDirtyJobs: a job is made and given to index() for every source key,
\* in the order of the keys; the jobs, mActiveJobs and the jobs started
RECURSIVE startDirtyJobs(_, _, _)
startDirtyJobs(js, active, keys) ==
    IF keys = {}
    THEN [jobs |-> js, active |-> active, started |-> {}]
    ELSE LET key == CHOOSE k \in keys : \A k2 \in keys : k <= k2
             job == CHOOSE j \in FreeJobs(js) : \A j2 \in FreeJobs(js) : j <= j2
             js1 == [j \in JobIds |->
                        IF j = job
                        THEN [key |-> key, state |-> "running",
                              cancelled |-> FALSE, visited |-> {}]
                        ELSE IF key \in DOMAIN active /\ active[key] = j
                             THEN [js[j] EXCEPT !.cancelled = TRUE]
                             ELSE js[j]]
             active1 == [k \in DOMAIN active \cup {key} |->
                            IF k = key THEN job ELSE active[k]]
             rest == startDirtyJobs(js1, active1, keys \ {key})
         IN  [rest EXCEPT !.started = @ \cup {job}]

\* the source keys of files, without those that have an active job
sourceKeys_idle(files) ==
    {key \in SourceKeys : SourceFileId(key) \in files /\ key \notin DOMAIN mActiveJobs}

\* the source keys of mSources whose file is one of files
sourceKeys(files) == {key \in SourceKeys : SourceFileId(key) \in files}

\* dirty(fileId): the file is pending and the timer is armed.  The calls are
\* bounded by the jobs left for the fire of the timer to start.
dirty(fileId) ==
    /\ Cardinality(FreeJobs(jobs)) >= MaxSourceKey
    /\ mPendingDirtyFiles' = mPendingDirtyFiles \cup {fileId}
    /\ mDirtyTimer' = TRUE
    /\ UNCHANGED <<mSuspendedFiles, lastDirty>>

\* toggleSuspendFile(file)
toggleSuspendFile(file) ==
    /\ mSuspendedFiles' = IF file \in mSuspendedFiles
                          THEN mSuspendedFiles \ {file}
                          ELSE mSuspendedFiles \cup {file}
    /\ UNCHANGED <<mPendingDirtyFiles, mDirtyTimer, lastDirty>>

\* the files of a fire of the timer: every pending file and the files that
\* depend on it, without the suspended files and the files with no source
dirtySet(pending) ==
    LET D == UNION {dependencies(mDependencies, heap, f, DependsOnArg) \cup {f} :
                       f \in pending}
    IN  {f \in D : ~isSuspended(f) /\ hasSource(f)}

\* onDirtyTimeout: the timer fires on the main loop
onDirtyTimeout ==
    LET handed == dirtySet(mPendingDirtyFiles)
        keys == sourceKeys(handed)
        s == startDirtyJobs(jobs, mActiveJobs, keys)
    IN  /\ mDirtyTimer
        /\ Cardinality(FreeJobs(jobs)) >= Cardinality(keys)
        /\ jobs' = s.jobs
        /\ mActiveJobs' = s.active
        /\ mPendingDirtyFiles' = {}
        /\ mDirtyTimer' = FALSE
        /\ lastDirty' = [pending |-> mPendingDirtyFiles, handed |-> handed,
                         started |-> s.started]
        /\ UNCHANGED <<mSuspendedFiles, mVisitedFiles, mFixIts, mDiagnostics,
                       visitAsserts, lastVisit, granted, depVars>>

\* no call from outside the jobs yet
NoCall == [op |-> "none", fileIds |-> {}]

CallVarsInit ==
    /\ released = {}
    /\ lastCall = NoCall
    /\ claimed = [j \in JobIds |-> {}]
    /\ holder = [f \in VisitFileIds |-> 0]

\* no call of sourceFilePath is under way
NoPathCall == [hi |-> 0, lo |-> 0, type |-> Symbols, path |-> "-"]

DirtyVarsInit ==
    /\ mPendingDirtyFiles = {}
    /\ mDirtyTimer = FALSE
    /\ mSuspendedFiles = {}
    /\ lastDirty = [pending |-> {}, handed |-> {}, started |-> {}]

\* the graph read back from the project file: the links of the pairs
\* (includer, includee), made with DependencyNode::include
RECURSIVE loadDependencies(_, _, _)
loadDependencies(d, h, edges) ==
    IF edges = {}
    THEN [deps |-> d, heap |-> h, failed |-> {}]
    ELSE LET e == CHOOSE x \in edges :
                     \A y \in edges : x[1] < y[1] \/ (x[1] = y[1] /\ x[2] <= y[2])
             s1 == insertOrGet(d, h, e[1])
             s2 == insertOrGet(s1.deps, s1.heap, e[2])
             a == s2.deps[e[1]]
             b == s2.deps[e[2]]
             rest == loadDependencies(s2.deps, include(s2.heap, a, b), edges \ {e})
         IN  [rest EXCEPT !.failed = @ \cup includeAsserts(s2.heap, a, b)]

\* the include links a project is loaded with: those of the chain
\* 1 -> 2 -> ... -> MaxDirtyFileId and the link that closes it to a cycle
ChainEdges ==
    {<<i, i + 1>> : i \in 1..(MaxDirtyFileId - 1)} \cup {<<MaxDirtyFileId, 1>>}

\* a project after init(): the dependencies loaded, nothing dirty
DirtyInit ==
    /\ ScopeInit /\ JobInit /\ WatchInit /\ DirtyVarsInit /\ CallVarsInit
    /\ pathCall = NoPathCall
    /\ \E edges \in SUBSET ChainEdges :
          LET g == loadDependencies(EmptyDeps, [x \in {} |-> DependencyNode(0)], edges)
          IN  /\ mDependencies = g.deps
              /\ heap = g.heap
              /\ depAsserts = g.failed
    /\ lastDep = [op |-> "none", fileId |-> 0]

Dirty ==
    /\ \E fileId \in DirtyFileIds : dirty(fileId)
    /\ UNCHANGED <<scopeVars, depVars, jobVars, watchVars, callVars>>

ToggleSuspend ==
    /\ \E file \in DirtyFileIds : toggleSuspendFile(file)
    /\ UNCHANGED <<scopeVars, depVars, jobVars, watchVars, callVars>>

DirtyTimeout ==
    /\ onDirtyTimeout
    /\ UNCHANGED <<scopeVars, watchVars, callVars>>

DirtyNext == Dirty \/ ToggleSuspend \/ DirtyTimeout

\* dirty files while jobs run and finish
WakeNext == Dirty \/ DirtyTimeout \/ JobComplete \/ JobAbort \/ JobFinished

(***************************************************************************)
(* Project::visitFile and Project::releaseFileIds called with any argument  *)
(***************************************************************************)
\* index(job) for a source key that has no active job
callIndex(job, key) ==
    /\ key \notin DOMAIN mActiveJobs
    /\ index(job, key)
    /\ lastCall' = [op |-> "index", fileIds |-> {}]
    /\ UNCHANGED <<released, claimed, holder, pathCall>>

\* visitFile(visitFileId, path, key) with any file id, path and key
callVisitFile(visitFileId, path, key) ==
    LET call == visitFile(visitFileId, path, key)
    IN  /\ mVisitedFiles' = call.visitedFiles
        /\ jobs' = call.jobs
        /\ visitAsserts' = visitAsserts \cup call.failed
        /\ granted' = IF call.result = "true" /\ visitFileId \in DOMAIN granted
                      THEN [granted EXCEPT ![visitFileId] =
                                              IF @ < 2 THEN @ + 1 ELSE @]
                      ELSE granted
        /\ lastVisit' = [fileId |-> visitFileId, result |-> call.result]
        /\ released' = released \ {visitFileId}
        /\ lastCall' = [op |-> "visitFile", fileIds |-> {}]
        /\ UNCHANGED <<mActiveJobs, mFixIts, mDiagnostics, depVars, claimed, holder,
                       pathCall>>

\* releaseFileIds(fileIds) with any set of file ids
callReleaseFileIds(fileIds) ==
    /\ mVisitedFiles' = releaseFileIds(mVisitedFiles, fileIds)
    /\ granted' = Released(fileIds)
    /\ released' = released \cup fileIds
    /\ lastCall' = [op |-> "releaseFileIds", fileIds |-> fileIds]
    /\ UNCHANGED <<mActiveJobs, jobs, mFixIts, mDiagnostics, visitAsserts,
                   lastVisit, depVars, claimed, holder, pathCall>>

CallIndex ==
    /\ Running
    /\ \E job \in JobIds, key \in SourceKeys : callIndex(job, key)
    /\ UNCHANGED <<scopeVars, watchVars, dirtyVars>>

CallVisitFile ==
    /\ Running
    /\ \E visitFileId \in ReleaseFileIds, path \in Paths, key \in {0} \cup SourceKeys :
          callVisitFile(visitFileId, path, key)
    /\ UNCHANGED <<scopeVars, watchVars, dirtyVars>>

CallReleaseFileIds ==
    /\ Running
    /\ \E fileIds \in SUBSET ReleaseFileIds : callReleaseFileIds(fileIds)
    /\ UNCHANGED <<scopeVars, watchVars, dirtyVars>>

VisitNext == CallIndex \/ CallVisitFile \/ CallReleaseFileIds

(***************************************************************************)
(* The workers' claims, by the job that makes them                         *)
(***************************************************************************)
\* the worker of a running job calls visitFile with the source key of its job
workerClaim(job) ==
    /\ jobs[job].state = "running"
    /\ \E visitFileId \in VisitFileIds, path \in Paths :
          LET call == visitFile(visitFileId, path, jobs[job].key)
          IN  /\ mVisitedFiles' = call.visitedFiles
              /\ jobs' = call.jobs
              /\ visitAsserts' = visitAsserts \cup call.failed
              /\ granted' = IF call.result = "true"
                            THEN [granted EXCEPT ![visitFileId] =
                                                    IF @ < 2 THEN @ + 1 ELSE @]
                            ELSE granted
              /\ lastVisit' = [fileId |-> visitFileId, result |-> call.result]
              /\ claimed' = IF call.result = "true"
                            THEN [claimed EXCEPT ![job] = @ \cup {visitFileId}]
                            ELSE claimed
              /\ holder' = IF call.result = "true"
                           THEN [holder EXCEPT ![visitFileId] = job]
                           ELSE holder
    /\ UNCHANGED <<mActiveJobs, mFixIts, mDiagnostics, depVars, released, lastCall,
                   pathCall>>

ClaimVisitFile ==
    /\ Running
    /\ \E job \in JobIds : workerClaim(job)
    /\ UNCHANGED <<scopeVars, watchVars, dirtyVars>>

\* no job holds a file id that has left mVisitedFiles
heldAfter(visitedFiles) ==
    [f \in DOMAIN holder |-> IF f \in DOMAIN visitedFiles THEN holder[f] ELSE 0]

ClaimAbort ==
    /\ Running
    /\ \E job \in JobIds : workerAbort(job) /\ holder' = heldAfter(mVisitedFiles')
    /\ UNCHANGED <<scopeVars, watchVars, dirtyVars, released, lastCall, claimed,
                   pathCall>>

ClaimFinished ==
    /\ Running
    /\ \E job \in JobIds : onJobFinished(job) /\ holder' = heldAfter(mVisitedFiles')
    /\ UNCHANGED <<scopeVars, watchVars, dirtyVars, released, lastCall, claimed,
                   pathCall>>

ClaimNext ==
    JobIndex \/ ClaimVisitFile \/ JobComplete \/ ClaimAbort \/ ClaimFinished

(***************************************************************************)
(* Project::sourceFilePath called for file ids of up to 32 bits            *)
(***************************************************************************)
\* the 16-bit halves of the file ids: the ends of the range, the values
\* around the sign bit of an int, and values with one to ten digits
PathHi == {0, 1, 15, 32767, 32768, 65535}
PathLo == {0, 1, 10, 34464, 65535}

\* a call with any of the file ids and any kind, not yet returned
PathInit ==
    /\ ScopeInit /\ DepInit /\ JobInit /\ WatchInit /\ DirtyVarsInit /\ CallVarsInit
    /\ pathCall \in [hi : PathHi, lo : PathLo, type : FileMapTypes, path : {""}]

\* the call returns the path
SourceFilePath ==
    /\ pathCall.path = ""
    /\ pathCall' = [pathCall EXCEPT
                      !.path = sourceFilePath32(pathCall.hi, pathCall.lo,
                                                fileMapName(pathCall.type))]
    /\ UNCHANGED <<scopeVars, depVars, jobVars, watchVars, dirtyVars,
                   released, lastCall, claimed, holder>>

PathNext == SourceFilePath

Init ==
    /\ ScopeInit /\ DepInit /\ JobInit /\ WatchInit /\ DirtyVarsInit /\ CallVarsInit
    /\ pathCall = NoPathCall

ScopeSpec == Init /\ [][ScopeNext]_vars

DepSpec == Init /\ [][DepNext]_vars

JobSpec == Init /\ [][JobNext]_vars

WatchSpec == Init /\ [][WatchNext]_vars

DirtySpec == DirtyInit /\ [][DirtyNext]_vars

VisitSpec == Init /\ [][VisitNext]_vars

ClaimSpec == Init /\ [][ClaimNext]_vars

PathSpec == PathInit /\ [][PathNext]_vars

\* a worker that runs ends, and the main loop takes the results posted to it
ClaimFairness ==
    /\ WF_vars(JobComplete)
    /\ WF_vars(ClaimFinished)

FairClaimSpec == Init /\ [][ClaimNext]_vars /\ ClaimFairness

\* the fire of the timer can be taken: the guard of onDirtyTimeout
TimeoutEnabled ==
    /\ mDirtyTimer
    /\ Cardinality(FreeJobs(jobs)) >=
          Cardinality(sourceKeys(dirtySet(mPendingDirtyFiles)))

\* weak fairness of the fire of the timer, with the enabling condition of
\* DirtyTimeout written as the state predicate TimeoutEnabled
TimerFairness ==
    []<>(~TimeoutEnabled) \/ []<><<DirtyTimeout>>_vars

\* the main loop takes the fire of the timer and the results posted to it,
\* and a worker that runs ends
WakeFairness ==
    /\ TimerFairness
    /\ WF_vars(JobComplete)
    /\ WF_vars(JobFinished)

WakeSpec == DirtyInit /\ [][WakeNext]_vars /\ WakeFairness

(***************************************************************************)
(* Properties of the query scope                                           *)
(***************************************************************************)
ListKeys == {entryList[i].key : i \in DOMAIN entryList}
MapKeys == {e.key : e \in entryMap}
OpenKeys == KindMapKeys(Caches)
\* the key of the open<Kind>() call a step makes
OpenedKey == LRUKey(lastOpen.type, lastOpen.fileId)
KeySeq(list) == [i \in DOMAIN list |-> list[i].key]
Last(seq) == seq[Len(seq)]

\* C1: the LRU list, the LRU entry map and the four kind maps hold the same
\* set of (kind, fileId) keys, openedFiles is the size of that set, and the
\* assertions of poke and of the eviction branch have not failed.
C1_CacheConsistent ==
    /\ ListKeys = MapKeys
    /\ MapKeys = OpenKeys
    /\ Len(entryList) = Cardinality(ListKeys)
    /\ Cardinality(entryMap) = Cardinality(MapKeys)
    /\ openedFiles = Cardinality(OpenKeys)
    /\ "poke" \notin failedAsserts
    /\ "evicted" \notin failedAsserts

\* reached: a failed load, a cache hit and a load with an eviction all leave
\* a full cache behind
C1_Witness ==
    /\ max = 2 /\ openedFiles = 2 /\ totalOpened = 3
    /\ lastOpen.outcome = "loaded" /\ lastOpen.evicted # NoKey
    /\ lastOpen.evicted.type # lastOpen.type

\* C2: at most max entries are open, in the counter, the kind maps and the
\* LRU list, and assert(openedFiles <= max) has not failed.
C2_AtMostMax ==
    /\ openedFiles <= max
    /\ Cardinality(OpenKeys) <= max
    /\ Len(entryList) <= max
    /\ "max" \notin failedAsserts

\* reached: an open pushed the count above max and one entry was evicted
C2_Witness ==
    /\ lastOpen.outcome = "loaded" /\ lastOpen.evicted # NoKey
    /\ openedFiles = max /\ max = 1

\* C3: a successful first open evicts exactly when the cache is full, and
\* then the evicted entry is the head of the LRU list, which is the cached
\* key whose most recent open is the oldest, and it is erased from the map
\* of its own kind while every other cached key stays.
C3_EvictsLeastRecentlyUsed ==
    [][ lastOpen'.outcome = "loaded" /\ totalOpened' # totalOpened =>
          LET ev == lastOpen'.evicted
          IN  /\ (ev # NoKey) = (Len(entryList) = max)
              /\ ev # NoKey =>
                   /\ ev = Head(entryList).key
                   /\ ev = Head(useOrder)
                   /\ ev.fileId \notin DOMAIN Caches'[KindMapOf(ev.type)]
                   /\ KindMapKeys(Caches') =
                        (OpenKeys \ {ev}) \cup {OpenedKey'}
                   /\ KeySeq(entryList') =
                        Append(Tail(KeySeq(entryList)), OpenedKey')
      ]_vars

\* reached: max = 2, (Symbols,1) and (Symbols,2) cached with (Symbols,2) the
\* older, opening (Targets,1) has evicted (Symbols,2)
C3_Witness ==
    /\ max = 2 /\ totalOpened = 3
    /\ lastOpen.outcome = "loaded"
    /\ OpenedKey = LRUKey(Targets, 1)
    /\ lastOpen.evicted = LRUKey(Symbols, 2)
    /\ KeySeq(entryList) = <<LRUKey(Symbols, 1), LRUKey(Targets, 1)>>

\* C4: an open of a cached (kind, fileId) returns the cached map without a
\* load, moves its LRU entry to the tail keeping the order of the others, and
\* leaves the kind maps, the entry map, openedFiles and totalOpened as they
\* were.
C4_CachedOpen ==
    [][ OpenedKey' \in OpenKeys /\ lastOpen'.outcome # "none" =>
          /\ lastOpen'.outcome = "cached"
          /\ lastOpen'.loadPath = ""
          /\ lastOpen'.result = Caches[KindMapOf(lastOpen'.type)][lastOpen'.fileId]
          /\ lastOpen'.result # NullMap
          /\ UNCHANGED <<symbolNames, symbols, targets, usrs, entryMap,
                         openedFiles, totalOpened, max>>
          /\ KeySeq(entryList') =
               Append(SelectSeq(KeySeq(entryList), LAMBDA k : k # OpenedKey'),
                      OpenedKey')
      ]_vars

\* reached: a cached open that moved an entry from the head to the tail
C4_Witness ==
    /\ lastOpen.outcome = "cached"
    /\ Len(entryList) = 2
    /\ Last(entryList).key = OpenedKey
    /\ useOrder = KeySeq(entryList)
    /\ lastOpen.type = Targets /\ entryList[1].key.type = Usrs

\* C5: a first open whose load succeeds stores the map loaded from the
\* file's path in the map of its kind, puts the key at the tail of the LRU
\* list and adds one to totalOpened; totalOpened is the number of successful
\* loads of the scope and no step of the scope decreases it, and an eviction
\* takes one entry away.
C5_FirstOpen ==
    [][ /\ totalOpened = loadCount
        /\ max' = max => totalOpened' >= totalOpened
        /\ lastOpen'.outcome = "loaded" /\ loadCount' # loadCount =>
             /\ OpenedKey' \notin OpenKeys
             /\ totalOpened' = totalOpened + 1
             /\ Caches'[KindMapOf(lastOpen'.type)][lastOpen'.fileId] =
                  LoadedMap(sourceFilePath(lastOpen'.fileId,
                                           fileMapName(lastOpen'.type)))
             /\ lastOpen'.result =
                  Caches'[KindMapOf(lastOpen'.type)][lastOpen'.fileId]
             /\ Last(entryList').key = OpenedKey'
             /\ Cardinality(KindMapKeys(Caches')) =
                  Cardinality(OpenKeys) + 1
                    - (IF lastOpen'.evicted # NoKey THEN 1 ELSE 0)
      ]_vars

\* reached: max = 2, (Symbols,1), (Symbols,2), (Usrs,2) opened:
\* totalOpened = 3 with 2 open entries
C5_Witness ==
    /\ max = 2 /\ totalOpened = 3 /\ openedFiles = 2
    /\ OpenKeys = {LRUKey(Symbols, 2), LRUKey(Usrs, 2)}
    /\ lastOpen.evicted = LRUKey(Symbols, 1)
    /\ KeySeq(entryList) = <<LRUKey(Symbols, 2), LRUKey(Usrs, 2)>>

\* C6: an open whose load fails returns no map, calls loadFailed(fileId)
\* once, evicts nothing and leaves the kind maps, the LRU list, the entry
\* map, openedFiles and totalOpened as they were; the key is not cached, and
\* every open of a key that is not cached attempts the load.
C6_FailedLoad ==
    [][ /\ lastOpen'.outcome = "failed" =>
             /\ lastOpen'.result = NullMap
             /\ lastOpen'.loadFailed = <<lastOpen'.fileId>>
             /\ lastOpen'.evicted = NoKey
             /\ OpenedKey' \notin KindMapKeys(Caches')
             /\ UNCHANGED <<symbolNames, symbols, targets, usrs, entryList,
                            entryMap, openedFiles, totalOpened, max>>
        /\ lastOpen'.outcome # "failed" => lastOpen'.loadFailed = <<>>
        /\ OpenedKey' \notin OpenKeys /\ lastOpen'.outcome # "none" =>
             lastOpen'.loadPath =
               sourceFilePath(lastOpen'.fileId, fileMapName(lastOpen'.type))
      ]_vars

\* reached: a load failed while the cache was full, after an earlier eviction
C6_Witness ==
    /\ lastOpen.outcome = "failed"
    /\ openedFiles = max /\ totalOpened > max
    /\ OpenedKey \notin OpenKeys

\* C18: an open whose load succeeds leaves its own (kind, fileId) in the map
\* of its kind and at the tail of the LRU list, with or without an eviction,
\* so that the next open of it finds it in the cache; the entry evicted is
\* another one, and the map returned, loaded or cached, is not null.
C18_KeepsOpened ==
    [][ /\ lastOpen'.outcome = "loaded" /\ loadCount' # loadCount /\ max >= 1 =>
             /\ lastOpen'.fileId \in DOMAIN Caches'[KindMapOf(lastOpen'.type)]
             /\ EntryMapContains(entryMap', OpenedKey')
             /\ entryList'[Len(entryList')].key = OpenedKey'
             /\ lastOpen'.evicted # OpenedKey'
             /\ lastOpen'.result # NullMap
             /\ Caches'[KindMapOf(lastOpen'.type)][lastOpen'.fileId] = lastOpen'.result
        /\ lastOpen'.outcome = "cached" => lastOpen'.result # NullMap
      ]_vars

\* reached: with max = 1, the open of (Usrs,2) has evicted (Symbols,1) and
\* (Usrs,2) is the one entry of the cache
C18_Witness ==
    /\ max = 1
    /\ lastOpen.outcome = "loaded"
    /\ OpenedKey = LRUKey(Usrs, 2)
    /\ lastOpen.evicted = LRUKey(Symbols, 1)
    /\ OpenKeys = {LRUKey(Usrs, 2)}
    /\ KeySeq(entryList) = <<LRUKey(Usrs, 2)>>

(***************************************************************************)
(* Properties of the dependency graph                                      *)
(***************************************************************************)
\* every entry of an includes or dependents map leads to a live node whose
\* fileId is the entry's key, the node the table holds for that file id
EntryRefersToKey(m) ==
    \A k \in DOMAIN m :
        /\ m[k] \in DOMAIN heap
        /\ heap[m[k]].fileId = k
        /\ k \in DOMAIN mDependencies /\ mDependencies[k] = m[k]

\* C9: the graph is symmetric: B is in A.includes exactly when A is in
\* B.dependents, every entry of either map refers to the node whose fileId
\* is its key, and the assertions of include have not failed.
C9_GraphSymmetric ==
    /\ \A a \in DOMAIN heap :
          EntryRefersToKey(heap[a].includes) /\ EntryRefersToKey(heap[a].dependents)
    /\ \A a \in DOMAIN heap, b \in DOMAIN heap :
          (heap[b].fileId \in DOMAIN heap[a].includes) =
          (heap[a].fileId \in DOMAIN heap[b].dependents)
    /\ \A f \in DOMAIN mDependencies :
          mDependencies[f] \in DOMAIN heap /\ heap[mDependencies[f]].fileId = f
    /\ depAsserts = {}

\* reached: file 1 was removed and linked again, so that its node is a new
\* one, and the graph holds the links 1 -> 2, 2 -> 1 and 2 -> 2
C9_Witness ==
    /\ lastDep.op = "link"
    /\ DOMAIN mDependencies = {1, 2}
    /\ mDependencies[1] = 2 /\ mDependencies[2] = 1
    /\ DOMAIN heap[mDependencies[1]].includes = {2}
    /\ DOMAIN heap[mDependencies[2]].includes = {1, 2}
    /\ DOMAIN heap[mDependencies[2]].dependents = {1, 2}

(***************************************************************************)
(* Properties of the visited files and of the jobs                         *)
(***************************************************************************)
\* C7: between two releases of a file id, and before the first, visitFile
\* returns true for it at most once.
C7_GrantedAtMostOnce == \A f \in VisitFileIds : granted[f] <= 1

\* reached: visitFile has returned true for file 1, which is in the table
\* with the empty path
C7_Witness ==
    /\ lastVisit = [fileId |-> 1, result |-> "true"]
    /\ 1 \in DOMAIN mVisitedFiles /\ mVisitedFiles[1] = ""
    /\ granted[1] = 1

\* a job indexed after job j with the source key of j
Superseded(j) ==
    \E j2 \in JobIds :
        j2 > j /\ jobs[j2].state # "none" /\ jobs[j2].key = jobs[j].key

\* the entry of every source key in mActiveJobs is the job indexed last with
\* that key, running or waiting for onJobFinished
OneActivePerKey ==
    \A k \in DOMAIN mActiveJobs :
        /\ jobs[mActiveJobs[k]].key = k
        /\ jobs[mActiveJobs[k]].state \in {"running", "complete"}
        /\ ~Superseded(mActiveJobs[k])

BitsOfModes(modes) ==
    (IF "Watch_FileManager" \in modes THEN 1 ELSE 0)
    + (IF "Watch_SourceFile" \in modes THEN 2 ELSE 0)
    + (IF "Watch_Dependency" \in modes THEN 4 ELSE 0)
    + (IF "Watch_CompilationDatabase" \in modes THEN 8 ELSE 0)

\* the bits stored for a directory, none when it has no entry
StoredBits(dir) == IF dir \in DOMAIN mWatchedPaths THEN mWatchedPaths[dir] ELSE 0

\* C10: the bits stored for a directory are those of the modes watched and
\* not unwatched since; no entry of mWatchedPaths has all its bits cleared,
\* and the directories registered with the watcher are those of
\* mWatchedPaths.
C10_WatchBits ==
    /\ \A d \in Dirs : StoredBits(d) = BitsOfModes(watchedModes[d])
    /\ \A d \in DOMAIN mWatchedPaths : mWatchedPaths[d] # 0
    /\ watcherPaths = DOMAIN mWatchedPaths

\* reached: /src is watched for FileManager and Dependency, and the last
\* mode of /inc has just been unwatched
C10_Witness ==
    /\ lastWatch = [op |-> "unwatch", dir |-> "/inc", mode |-> "Watch_SourceFile"]
    /\ DOMAIN mWatchedPaths = {"/src"} /\ mWatchedPaths["/src"] = 5
    /\ watcherPaths = {"/src"}
    /\ watchedModes["/src"] = {"Watch_FileManager", "Watch_Dependency"}

(***************************************************************************)
(* Properties of the dirty files                                           *)
(***************************************************************************)
\* the include links of the graph, as (file id of the includer, file id of
\* the included file)
IncludeLinks ==
    UNION {{<<heap[a].fileId, k>> : k \in DOMAIN heap[a].includes} : a \in DOMAIN heap}

\* the files of S and the files that include one of them along at most n links
RECURSIVE Includers(_, _)
Includers(S, n) ==
    IF n = 0 THEN S
    ELSE Includers(S \cup {e[1] : e \in {x \in IncludeLinks : x[2] \in S}}, n - 1)

\* the files that include f, directly or through other files
TransitiveIncluders(f) ==
    Includers({e[1] : e \in {x \in IncludeLinks : x[2] = f}}, Cardinality(DOMAIN heap))

\* C11: a fire of the dirty timer hands to startDirtyJobs the pending files
\* and the files that include them directly or through other files, without
\* the suspended files and the files with no source; it starts a job for
\* each of them and leaves mPendingDirtyFiles empty.
C11_DirtyFiles ==
    [][ mDirtyTimer /\ ~mDirtyTimer' =>
          /\ lastDirty'.pending = mPendingDirtyFiles
          /\ lastDirty'.handed =
                {g \in UNION {TransitiveIncluders(f) \cup {f} : f \in mPendingDirtyFiles} :
                    g \notin mSuspendedFiles /\ \E key \in SourceKeys : SourceFileId(key) = g}
          /\ {SourceFileId(jobs'[j].key) : j \in lastDirty'.started} = lastDirty'.handed
          /\ \A j \in lastDirty'.started :
                jobs[j].state = "none" /\ jobs'[j].state = "running"
          /\ mPendingDirtyFiles' = {}
      ]_vars

\* reached: with the chain 1 -> 2 -> 3 and nothing suspended, file 3 was
\* dirty when the timer fired: files 1, 2 and 3 are dirty, and file 1, the
\* one with a source, was handed to startDirtyJobs
C11_Witness ==
    /\ IncludeLinks = {<<1, 2>>, <<2, 3>>}
    /\ mSuspendedFiles = {}
    /\ lastDirty.pending = {3} /\ lastDirty.handed = {1}
    /\ TransitiveIncluders(3) \cup {3} = {1, 2, 3}
    /\ mPendingDirtyFiles = {} /\ ~mDirtyTimer

\* the job indexed last with a source key of file f
LatestJobs(f) ==
    {j \in JobIds : /\ jobs[j].state # "none"
                    /\ SourceFileId(jobs[j].key) = f
                    /\ ~Superseded(j)}

\* file f has a source and is not suspended
Indexable(f) == (\E key \in SourceKeys : SourceFileId(key) = f) /\ f \notin mSuspendedFiles

C13_VisitFrame ==
    [][ /\ \A f \in VisitFileIds :
              granted'[f] > granted[f] => f \notin DOMAIN mVisitedFiles
        /\ (lastVisit' # lastVisit /\ lastVisit'.result = "false") =>
              /\ lastVisit'.fileId \in DOMAIN mVisitedFiles
              /\ UNCHANGED <<mVisitedFiles, jobs>>
      ]_vars

\* reached: visitFile has returned true twice for file 1, which was in the
\* table with the empty path at the second call
C13_Witness ==
    /\ granted[1] = 2
    /\ lastVisit = [fileId |-> 1, result |-> "true"]
    /\ 1 \in DOMAIN mVisitedFiles

(***************************************************************************)
(* Properties of releaseFileIds                                            *)
(***************************************************************************)
\* C14: releaseFileIds(fileIds) removes the file ids of fileIds from
\* mVisitedFiles and nothing else, and changes no job and no entry of
\* mActiveJobs; a file id released is not in mVisitedFiles until it is
\* visited, and the next visitFile call for it returns true (if it returns:
\* a call whose assertion on the source key fails ends the process).
C14_ReleaseFrame ==
    /\ [][ lastCall'.op = "releaseFileIds" =>
              /\ DOMAIN mVisitedFiles' = DOMAIN mVisitedFiles \ lastCall'.fileIds
              /\ \A f \in DOMAIN mVisitedFiles' : mVisitedFiles'[f] = mVisitedFiles[f]
              /\ jobs' = jobs /\ mActiveJobs' = mActiveJobs
              /\ lastCall'.fileIds = {} => mVisitedFiles' = mVisitedFiles
         ]_vars
    /\ [](\A f \in released : f \notin DOMAIN mVisitedFiles)
    /\ [][ \A f \in released :
              f \notin released' =>
                 /\ lastVisit'.fileId = f
                 /\ \/ lastVisit'.result = "true"
                    \/ lastVisit'.result = "assert" /\ visitAsserts' # {}
         ]_vars

\* reached: releaseFileIds({1}) has removed file 1 and kept file 2, both
\* visited by job 1, whose visited set still holds them
C14_Witness ==
    /\ lastCall = [op |-> "releaseFileIds", fileIds |-> {1}]
    /\ DOMAIN mVisitedFiles = {2}
    /\ mVisitedFiles[2] = "/a"
    /\ jobs[1].visited = {1, 2}
    /\ released = {1}

(***************************************************************************)
(* Properties of visitFile called by the workers of superseded jobs        *)
(***************************************************************************)
\* C16: the assertions of visitFile hold at every call of a worker: a source
\* key that is not 0 is a key of mActiveJobs and its job is not null.
C16_VisitAsserts == visitAsserts = {}

\* reached: job 2 took the place of job 1 under the same source key and its
\* result is merged, so the key has left mActiveJobs; the worker of job 1,
\* still running, has called visitFile with that key
C16_Witness ==
    /\ jobs[1].state = "running" /\ jobs[1].cancelled
    /\ jobs[2].state = "merged"
    /\ jobs[1].key \notin DOMAIN mActiveJobs
    /\ lastVisit.result = "assert"
    /\ "contains" \in visitAsserts

\* C17: the file ids in the visited set of a job that runs or waits for
\* onJobFinished are the file ids that its worker has claimed with the
\* source key of the job, so that the job releases what it claimed.
C17_ClaimedByCaller ==
    \A j \in JobIds :
        jobs[j].state \in {"running", "complete"} => jobs[j].visited = claimed[j]

\* reached: job 2 took the place of job 1 under the same source key; the
\* worker of job 1 then claimed file 1, which is in the visited set of job 2
C17_Witness ==
    /\ jobs[1].state = "running" /\ jobs[1].cancelled
    /\ jobs[2].state = "running" /\ jobs[2].key = jobs[1].key
    /\ claimed[1] = {1} /\ claimed[2] = {}
    /\ jobs[1].visited = {} /\ jobs[2].visited = {1}

\* C15: a file id held by the worker of a cancelled job is eventually out
\* of mVisitedFiles, as long as the process runs.
C15_ReleasedEventually ==
    \A j \in JobIds, f \in VisitFileIds :
        (jobs[j].cancelled /\ holder[f] = j) ~>
            (f \notin DOMAIN mVisitedFiles \/ ~Running)

\* reached: job 1, superseded by job 2, has ended and so has job 2, and
\* file 1, claimed by the worker of job 1, is in mVisitedFiles
C15_Witness ==
    /\ jobs[1].cancelled /\ jobs[1].state \in {"aborted", "discarded"}
    /\ jobs[2].state = "merged"
    /\ holder[1] = 1 /\ claimed[2] = {}
    /\ 1 \in DOMAIN mVisitedFiles
    /\ visitAsserts = {}

(***************************************************************************)
(* Properties of sourceFilePath                                            *)
(***************************************************************************)
\* the short name of a kind
ShortName(type) ==
    CASE type = Symbols -> "symbols"
      [] type = SymbolNames -> "symnames"
      [] type = Targets -> "targets"
      [] type = Usrs -> "usrs"

\* C19: the path returned for a file id and a kind is the base path, the
\* decimal digits of the file id, a slash and the short name of the kind, and
\* no other file id or kind gives the same path.
C19_PathOfFileId ==
    pathCall.path \notin {"", "-"} =>
        /\ pathCall.path =
             mSourceFilePathBase \o DecimalHalves(pathCall.hi, pathCall.lo)
                 \o "/" \o ShortName(pathCall.type)
        /\ \A hi \in PathHi, lo \in PathLo, type \in FileMapTypes :
              sourceFilePath32(hi, lo, fileMapName(type)) = pathCall.path =>
                 hi = pathCall.hi /\ lo = pathCall.lo /\ type = pathCall.type

\* reached: the path returned for file id 2147483648 (32768 * 65536) and
\* Symbols has a negative number in it
C19_Witness ==
    /\ pathCall.hi = 32768 /\ pathCall.lo = 0 /\ pathCall.type = Symbols
    /\ pathCall.path = "/base/-2147483648/symbols"
====
